---- MODULE Spec2Model ----
(***************************************************************************)
(* Model of src/profile.rs: discovery of the audio device of a Bluetooth   *)
(* address through PipeWire (pw-dump) with fallback to PulseAudio (pactl), *)
(* and profile switching (wpctl / pactl).                                  *)
(*                                                                         *)
(* Strings are sequences of Unicode code points, byte strings sequences of *)
(* bytes, Option<T> is <<>> (None) or <<x>> (Some(x)).  A JSON object is a  *)
(* record holding, for every key the deserializer looks at, an Option that *)
(* tells whether the key is present.                                       *)
(***************************************************************************)
EXTENDS Integers, Sequences, FiniteSets, TLC

\* ---------------------------------------------------------------- bounds
\* Longest pw-dump array, longest pactl card array, longest profile list.
MaxEntries == 2
MaxCards == 2
MaxProfiles == 2

\* ---------------------------------------------------------------- Option
None == <<>>
Some(x) == <<x>>
IsSome(o) == Len(o) > 0
IsNone(o) == Len(o) = 0

\* ---------------------------------------------------------------- strings
Colon == 58
Underscore == 95
\* U+FFFD, what String::from_utf8_lossy puts for an invalid byte
ReplacementChar == 65533

\* "off"
Str_off == <<111, 102, 102>>
\* "yes"
Str_yes == <<121, 101, 115>>
\* "no"
Str_no == <<110, 111>>
\* "pw-dump"
Str_pw_dump == <<112, 119, 45, 100, 117, 109, 112>>
\* "wpctl"
Str_wpctl == <<119, 112, 99, 116, 108>>
\* "set-profile"
Str_set_profile == <<115, 101, 116, 45, 112, 114, 111, 102, 105, 108, 101>>
\* "pactl"
Str_pactl == <<112, 97, 99, 116, 108>>
\* "--format=json"
Str_format_json == <<45, 45, 102, 111, 114, 109, 97, 116, 61, 106, 115, 111, 110>>
\* "list"
Str_list == <<108, 105, 115, 116>>
\* "cards"
Str_cards == <<99, 97, 114, 100, 115>>
\* "set-card-profile"
Str_set_card_profile == <<115, 101, 116, 45, 99, 97, 114, 100, 45, 112, 114, 111, 102, 105, 108, 101>>
\* "Profile switched"
Str_Profile_switched == <<80, 114, 111, 102, 105, 108, 101, 32, 115, 119, 105, 116, 99, 104, 101, 100>>
\* "Failed to run wpctl: "
Str_Failed_to_run_wpctl == <<70, 97, 105, 108, 101, 100, 32, 116, 111, 32, 114, 117, 110, 32, 119, 112, 99, 116, 108, 58, 32>>
\* "wpctl failed: "
Str_wpctl_failed == <<119, 112, 99, 116, 108, 32, 102, 97, 105, 108, 101, 100, 58, 32>>
\* "Failed to run pactl: "
Str_Failed_to_run_pactl == <<70, 97, 105, 108, 101, 100, 32, 116, 111, 32, 114, 117, 110, 32, 112, 97, 99, 116, 108, 58, 32>>
\* "pactl failed: "
Str_pactl_failed == <<112, 97, 99, 116, 108, 32, 102, 97, 105, 108, 101, 100, 58, 32>>
\* the two property keys of a PulseAudio card that may hold the address
Key_bluez5_address == "api.bluez5.address"
Key_device_string == "device.string"

\* str::replace(from, to) for a one-character pattern
Replace(s, from, to) == [i \in 1..Len(s) |-> IF s[i] = from THEN to ELSE s[i]]

\* str::contains: pat occurs in s as a contiguous substring
Contains(s, pat) ==
    \E i \in 0..(Len(s) - Len(pat)) : SubSeq(s, i + 1, i + Len(pat)) = pat

\* Option<String>::unwrap_or_default
UnwrapOrDefault(o) == IF IsSome(o) THEN o[1] ELSE <<>>

\* u32::to_string: the decimal digits of n, most significant first
RECURSIVE U32ToString(_)
U32ToString(n) ==
    IF n < 10 THEN <<48 + n>> ELSE U32ToString(n \div 10) \o <<48 + (n % 10)>>

\* String::from_utf8_lossy on a byte string whose bytes are ASCII or 0xFF:
\* an ASCII byte is its own code point, 0xFF is never valid UTF-8
FromUtf8Lossy(bytes) ==
    [i \in 1..Len(bytes) |-> IF bytes[i] < 128 THEN bytes[i] ELSE ReplacementChar]

\* ---------------------------------------------------------------- Address
\* one upper-case hexadecimal digit
HexDigit(d) == IF d < 10 THEN 48 + d ELSE 55 + d
\* {:02X}
HexByte(b) == <<HexDigit(b \div 16), HexDigit(b % 16)>>
\* Address::to_string: six octets as XX:XX:XX:XX:XX:XX
AddressToString(a) ==
    HexByte(a[1]) \o <<Colon>> \o HexByte(a[2]) \o <<Colon>> \o
    HexByte(a[3]) \o <<Colon>> \o HexByte(a[4]) \o <<Colon>> \o
    HexByte(a[5]) \o <<Colon>> \o HexByte(a[6])

address_to_bluez_format(addr) == Replace(AddressToString(addr), Colon, Underscore)

\* ---------------------------------------------------------------- device
Pipewire(id) == [variant |-> "Pipewire", id |-> id]
Pulseaudio(card) == [variant |-> "Pulseaudio", card |-> card]
AudioProfile(index, name, description, available) ==
    [index |-> index, name |-> name, description |-> description,
     available |-> available]
AudioDevice(id, profiles, active) ==
    [id |-> id, profiles |-> profiles, active_profile_index |-> active]

\* ---------------------------------------------------------------- PipeWire
\* serde: PwEnumProfile needs "index"; name, description, available default
PwEnumProfileValid(j) == IsSome(j.index)
PwEnumProfileFromJson(j) ==
    [index |-> j.index[1], name |-> j.name, description |-> j.description,
     available |-> j.available]
\* serde: PwActiveProfile needs "index"
PwActiveProfileValid(j) == IsSome(j.index)
PwActiveProfileFromJson(j) == [index |-> j.index[1]]
\* serde: both lists default to empty when the key is missing
PwParamsValid(j) ==
    /\ \A i \in 1..Len(UnwrapOrDefault(j.EnumProfile)) :
          PwEnumProfileValid(UnwrapOrDefault(j.EnumProfile)[i])
    /\ \A i \in 1..Len(UnwrapOrDefault(j.Profile)) :
          PwActiveProfileValid(UnwrapOrDefault(j.Profile)[i])
PwParamsFromJson(j) ==
    [enum_profile |->
        [i \in 1..Len(UnwrapOrDefault(j.EnumProfile)) |->
            PwEnumProfileFromJson(UnwrapOrDefault(j.EnumProfile)[i])],
     profile |->
        [i \in 1..Len(UnwrapOrDefault(j.Profile)) |->
            PwActiveProfileFromJson(UnwrapOrDefault(j.Profile)[i])]]
PwPropsFromJson(j) == [bluez5_address |-> j[Key_bluez5_address]]
PwInfoValid(j) == IsSome(j.params) => PwParamsValid(j.params[1])
PwInfoFromJson(j) ==
    [props |-> IF IsSome(j.props) THEN Some(PwPropsFromJson(j.props[1])) ELSE None,
     params |-> IF IsSome(j.params) THEN Some(PwParamsFromJson(j.params[1])) ELSE None]
\* serde: PwDumpEntry needs "id"
PwDumpEntryValid(j) ==
    /\ IsSome(j.id)
    /\ IsSome(j.info) => PwInfoValid(j.info[1])
PwDumpEntryFromJson(j) ==
    [id |-> j.id[1],
     info |-> IF IsSome(j.info) THEN Some(PwInfoFromJson(j.info[1])) ELSE None]

\* serde_json::from_slice::<Vec<PwDumpEntry>>(stdout).ok()
PwEntriesFromSlice(stdout) ==
    IF ~stdout.wellformed \/ \E i \in 1..Len(stdout.doc) : ~PwDumpEntryValid(stdout.doc[i])
    THEN None
    ELSE Some([i \in 1..Len(stdout.doc) |-> PwDumpEntryFromJson(stdout.doc[i])])

\* the filter / map / filter chain over params.enum_profile
PwNotOff(p) == p.name # Some(Str_off)
PwToAudioProfile(p) ==
    AudioProfile(p.index, UnwrapOrDefault(p.name), UnwrapOrDefault(p.description),
                 p.available = Some(Str_yes))
PwProfiles(enum_profile) ==
    LET notOff == SelectSeq(enum_profile, PwNotOff)
        mapped == [i \in 1..Len(notOff) |-> PwToAudioProfile(notOff[i])]
    IN  SelectSeq(mapped, LAMBDA p : p.available)

\* params.profile.first().map(|p| p.index)
PwActiveIndex(profile) == IF Len(profile) = 0 THEN None ELSE Some(profile[1].index)

\* the guard that skips an address-matching entry
PwEntrySkipped(params) == Len(params.enum_profile) = 0

\* the for loop over the entries, from entry i on
RECURSIVE PwScan(_, _, _)
PwScan(entries, addr_str, i) ==
    IF i > Len(entries) THEN None
    ELSE LET entry == entries[i]
             next == PwScan(entries, addr_str, i + 1)
         IN  IF IsNone(entry.info) THEN next
             ELSE LET info == entry.info[1] IN
             IF IsNone(info.props) THEN next
             ELSE LET props == info.props[1] IN
             IF IsNone(props.bluez5_address) THEN next
             ELSE IF Replace(props.bluez5_address[1], Colon, Underscore) # addr_str THEN next
             ELSE IF IsNone(info.params) THEN next
             ELSE LET params == info.params[1] IN
             IF PwEntrySkipped(params) THEN next
             ELSE Some(AudioDevice(Pipewire(entry.id),
                                   PwProfiles(params.enum_profile),
                                   PwActiveIndex(params.profile)))

\* get_pipewire_device once Command::output() has returned `output`
get_pipewire_device(output, addr) ==
    IF ~output.launched THEN None
    ELSE IF output.status # Some(0) THEN None
    ELSE LET entries == PwEntriesFromSlice(output.stdout) IN
         IF IsNone(entries) THEN None
         ELSE PwScan(entries[1], address_to_bluez_format(addr), 1)

\* ---------------------------------------------------------------- PulseAudio
\* HashMap::get on the card's properties
MapGet(m, k) == m[k]

\* serde: every field of PaProfile and PaCard has a default
PaProfileFromJson(j) ==
    [name |-> UnwrapOrDefault(j.name),
     description |-> UnwrapOrDefault(j.description),
     available |-> IF IsSome(j.available) THEN j.available[1] ELSE FALSE]
PaCardFromJson(j) ==
    [name |-> UnwrapOrDefault(j.name),
     properties |-> IF IsSome(j.properties) THEN j.properties[1]
                    ELSE (Key_bluez5_address :> None) @@ (Key_device_string :> None),
     profiles |-> [i \in 1..Len(UnwrapOrDefault(j.profiles)) |->
                      PaProfileFromJson(UnwrapOrDefault(j.profiles)[i])],
     active_profile |-> j.active_profile]

\* serde_json::from_slice::<Vec<PaCard>>(stdout).ok()
PaCardsFromSlice(stdout) ==
    IF ~stdout.wellformed THEN None
    ELSE Some([i \in 1..Len(stdout.doc) |-> PaCardFromJson(stdout.doc[i])])

\* (mutant) card_addr that looks at device.string before api.bluez5.address
PaCardAddr_device_string_first(card) ==
    LET first == MapGet(card.properties, Key_device_string)
        found == IF IsSome(first) THEN first
                 ELSE MapGet(card.properties, Key_bluez5_address)
    IN  IF IsSome(found) THEN Some(Replace(found[1], Colon, Underscore)) ELSE None

\* card_addr: api.bluez5.address, or else device.string, ':' replaced by '_'
PaCardAddr(card) ==
    LET first == MapGet(card.properties, Key_bluez5_address)
        found == IF IsSome(first) THEN first
                 ELSE MapGet(card.properties, Key_device_string)
    IN  IF IsSome(found) THEN Some(Replace(found[1], Colon, Underscore)) ELSE None

\* name_matches || addr_matches
PaCardMatches(card, addr_str) ==
    LET name_matches == Contains(card.name, addr_str)
        addr_matches == PaCardAddr(card) = Some(addr_str)
    IN  name_matches \/ addr_matches

\* the index given to the profile at zero-based position idx of card.profiles,
\* `pushed` being the profiles kept so far
PaProfileIndex(idx, pushed) == idx

\* the loop over card.profiles.iter().enumerate(), from position i (one-based) on
RECURSIVE PaCollect(_, _, _)
PaCollect(card_profiles, i, pushed) ==
    IF i > Len(card_profiles) THEN pushed
    ELSE LET pa_profile == card_profiles[i] IN
         IF pa_profile.name = Str_off THEN PaCollect(card_profiles, i + 1, pushed)
         ELSE LET profile == AudioProfile(PaProfileIndex(i - 1, pushed), pa_profile.name,
                                          pa_profile.description, pa_profile.available)
              IN  IF pa_profile.available
                  THEN PaCollect(card_profiles, i + 1, Append(pushed, profile))
                  ELSE PaCollect(card_profiles, i + 1, pushed)
PaProfiles(card_profiles) == PaCollect(card_profiles, 1, <<>>)

\* the loop that looks the active profile's name up in the kept profiles
RECURSIVE PaFindActive(_, _, _)
PaFindActive(profiles, active_name, i) ==
    IF i > Len(profiles) THEN None
    ELSE IF profiles[i].name = active_name THEN Some(i - 1)
    ELSE PaFindActive(profiles, active_name, i + 1)
\* (mutant) the active profile looked up in the card's unfiltered profile list
PaActiveIndex_unfiltered(card, profiles) ==
    IF IsSome(card.active_profile)
    THEN PaFindActive(card.profiles, card.active_profile[1], 1)
    ELSE None
PaActiveIndex(card, profiles) ==
    IF IsSome(card.active_profile)
    THEN PaFindActive(profiles, card.active_profile[1], 1)
    ELSE None

\* the for loop over the cards, from card i on
RECURSIVE PaScan(_, _, _)
PaScan(cards, addr_str, i) ==
    IF i > Len(cards) THEN None
    ELSE LET card == cards[i]
             next == PaScan(cards, addr_str, i + 1)
         IN  IF ~PaCardMatches(card, addr_str) THEN next
             ELSE LET profiles == PaProfiles(card.profiles)
                      active_profile_index == PaActiveIndex(card, profiles)
                  IN  IF Len(profiles) = 0 THEN next
                      ELSE Some(AudioDevice(Pulseaudio(card.name), profiles,
                                            active_profile_index))

\* get_pulseaudio_device once Command::output() has returned `output`
get_pulseaudio_device(output, addr) ==
    IF ~output.launched THEN None
    ELSE IF output.status # Some(0) THEN None
    ELSE LET cards == PaCardsFromSlice(output.stdout) IN
         IF IsNone(cards) THEN None
         ELSE PaScan(cards[1], address_to_bluez_format(addr), 1)

\* ---------------------------------------------------------------- switching
Ok(msg) == [ok |-> TRUE, msg |-> msg]
Err(msg) == [ok |-> FALSE, msg |-> msg]

\* the argument vectors handed to Command
PwDumpArgv == <<Str_pw_dump>>
PaListArgv == <<Str_pactl, Str_format_json, Str_list, Str_cards>>
WpctlArgv(device_id, profile_index) ==
    <<Str_wpctl, Str_set_profile, U32ToString(device_id), U32ToString(profile_index)>>
PactlSetArgv(card_name, profile_name) ==
    <<Str_pactl, Str_set_card_profile, card_name, profile_name>>

\* (mutant) the PulseAudio command given the profile index instead of its name
SwitchArgv_index_for_pulseaudio(device, profile_index, profile_name) ==
    IF device.variant = "Pipewire"
    THEN WpctlArgv(device.id, profile_index)
    ELSE PactlSetArgv(device.card, U32ToString(profile_index))

\* switch_profile: the command of the backend that owns the device
SwitchArgv(device, profile_index, profile_name) ==
    IF device.variant = "Pipewire"
    THEN WpctlArgv(device.id, profile_index)
    ELSE PactlSetArgv(device.card, profile_name)

\* (mutant) a launched command counts as success whatever its exit status
SwitchResult_ignores_status(output, failedToRun, failed) ==
    IF ~output.launched THEN Err(failedToRun \o output.error)
    ELSE Ok(Str_Profile_switched)

\* the result of switch_pipewire_profile / switch_pulseaudio_profile once
\* Command::output() has returned `output`
SwitchResult(output, failedToRun, failed) ==
    IF ~output.launched THEN Err(failedToRun \o output.error)
    ELSE IF output.status = Some(0) THEN Ok(Str_Profile_switched)
    ELSE Err(failed \o FromUtf8Lossy(output.stderr))
switch_pipewire_profile(output) ==
    SwitchResult(output, Str_Failed_to_run_wpctl, Str_wpctl_failed)
switch_pulseaudio_profile(output) ==
    SwitchResult(output, Str_Failed_to_run_pactl, Str_pactl_failed)
switch_profile(device, output) ==
    IF device.variant = "Pipewire"
    THEN switch_pipewire_profile(output)
    ELSE switch_pulseaudio_profile(output)

\* ---------------------------------------------------------------- inputs
\* all sequences over S of length at most n / without repeated elements
SeqsUpTo(S, n) == UNION { [1..k -> S] : k \in 0..n }
DistinctSeqsUpTo(S, n) ==
    { q \in SeqsUpTo(S, n) : \A i, j \in 1..Len(q) : i # j => q[i] # q[j] }

\* the queried addresses AA:BB:CC:DD:EE:FF and 11:22:33:44:55:66
Addr_A == <<170, 187, 204, 221, 238, 255>>
Addr_B == <<17, 34, 51, 68, 85, 102>>
Addresses == {Addr_A, Addr_B}

\* "AA:BB:CC:DD:EE:FF"
Text_addr_colon == <<65, 65, 58, 66, 66, 58, 67, 67, 58, 68, 68, 58, 69, 69, 58, 70, 70>>
\* "AA_BB_CC_DD_EE_FF"
Text_addr_underscore == <<65, 65, 95, 66, 66, 95, 67, 67, 95, 68, 68, 95, 69, 69, 95, 70, 70>>
\* "11:22:33:44:55:66"
Text_addr_other == <<49, 49, 58, 50, 50, 58, 51, 51, 58, 52, 52, 58, 53, 53, 58, 54, 54>>
\* "bluez_card.AA_BB_CC_DD_EE_FF"
Name_bluez_card == <<98, 108, 117, 101, 122, 95, 99, 97, 114, 100, 46, 65, 65, 95, 66, 66, 95, 67, 67, 95, 68, 68, 95, 69, 69, 95, 70, 70>>
\* "alsa_card.pci"
Name_alsa_card == <<97, 108, 115, 97, 95, 99, 97, 114, 100, 46, 112, 99, 105>>
\* "a2dp"
Str_a2dp == <<97, 50, 100, 112>>
\* "hsp"
Str_hsp == <<104, 115, 112>>
\* "HiFi"
Str_HiFi == <<72, 105, 70, 105>>
\* "Headset"
Str_Headset == <<72, 101, 97, 100, 115, 101, 116>>
\* "No such file or directory (os error 2)", the io::Error of a command that is
\* not installed, and "Permission denied (os error 13)", of one that may not be run
Text_enoent == <<78, 111, 32, 115, 117, 99, 104, 32, 102, 105, 108, 101, 32, 111, 114, 32, 100, 105, 114, 101, 99, 116, 111, 114, 121, 32, 40, 111, 115, 32, 101, 114, 114, 111, 114, 32, 50, 41>>
Text_eacces == <<80, 101, 114, 109, 105, 115, 115, 105, 111, 110, 32, 100, 101, 110, 105, 101, 100, 32, 40, 111, 115, 32, 101, 114, 114, 111, 114, 32, 49, 51, 41>>
\* "No such card" as bytes, and a byte string that is not UTF-8
Bytes_no_card == <<78, 111, 32, 115, 117, 99, 104, 32, 99, 97, 114, 100>>
Bytes_not_utf8 == <<78, 111, 255>>

\* Result<Output, io::Error> of Command::output(): the launch failed, or the
\* child ran and ended with an exit code (None when a signal killed it)
LaunchError(e) == [launched |-> FALSE, error |-> e]
Exited(status, stdout, stderr) ==
    [launched |-> TRUE, status |-> status, stdout |-> stdout, stderr |-> stderr]
ExitCodes == {Some(0), Some(1), None}
LaunchErrors == {Text_enoent, Text_eacces}

\* bytes that are no JSON document / a JSON array of objects
Malformed == [wellformed |-> FALSE, doc |-> <<>>]
JsonArray(doc) == [wellformed |-> TRUE, doc |-> doc]

\* --- pw-dump
RawPwProfile(index, name, description, available) ==
    [index |-> index, name |-> name, description |-> description,
     available |-> available]
RawPw_off == RawPwProfile(Some(0), Some(Str_off), None, Some(Str_yes))
RawPw_hsp == RawPwProfile(Some(1), Some(Str_hsp), Some(Str_Headset), Some(Str_no))
RawPw_a2dp == RawPwProfile(Some(2), Some(Str_a2dp), Some(Str_HiFi), Some(Str_yes))
\* only "index" present: no name, no description, no availability
RawPw_bare == RawPwProfile(Some(3), None, None, None)
\* available on, name and description missing
RawPw_anon == RawPwProfile(Some(4), None, None, Some(Str_yes))
\* "index" missing: the deserializer rejects the whole dump
RawPw_noindex == RawPwProfile(None, Some(Str_a2dp), Some(Str_HiFi), Some(Str_yes))
RawPwProfilePool == {RawPw_off, RawPw_hsp, RawPw_a2dp}
RawPwEnumLists ==
    {Some(q) : q \in DistinctSeqsUpTo(RawPwProfilePool, MaxProfiles)}
RawPwActive_missing == None
RawPwActive_empty == Some(<<>>)
RawPwActive_two == Some(<<[index |-> Some(1)], [index |-> Some(2)]>>)

RawPwProps(address) == (Key_bluez5_address :> address)
RawPwParams(enum, active) == [EnumProfile |-> enum, Profile |-> active]
RawPwInfo(props, params) == [props |-> props, params |-> params]
RawPwGoodParams == RawPwParams(Some(<<RawPw_off, RawPw_a2dp>>), RawPwActive_two)
\* the "info" of the objects a dump is made of
RawPwInfos ==
    {   None,
        Some(RawPwInfo(None, Some(RawPwGoodParams))),
        Some(RawPwInfo(Some(RawPwProps(None)), Some(RawPwGoodParams))),
        Some(RawPwInfo(Some(RawPwProps(Some(Text_addr_other))), Some(RawPwGoodParams))),
        Some(RawPwInfo(Some(RawPwProps(Some(Text_addr_underscore))), Some(RawPwGoodParams))),
        Some(RawPwInfo(Some(RawPwProps(Some(Text_addr_colon))), None)),
        Some(RawPwInfo(Some(RawPwProps(Some(Text_addr_colon))),
                       Some(RawPwParams(None, RawPwActive_two)))),
        Some(RawPwInfo(Some(RawPwProps(Some(Text_addr_colon))),
                       Some(RawPwParams(Some(<<RawPw_bare, RawPw_anon>>), RawPwActive_empty)))),
        Some(RawPwInfo(Some(RawPwProps(Some(Text_addr_colon))),
                       Some(RawPwParams(Some(<<RawPw_noindex>>), RawPwActive_missing))))
    } \cup
    {   Some(RawPwInfo(Some(RawPwProps(Some(Text_addr_colon))), Some(RawPwParams(e, a)))) :
            e \in RawPwEnumLists, a \in {RawPwActive_missing, RawPwActive_two} }
\* the object ids of a dump: the object at position i has id PwIdBase + i
PwIdBase == 30
\* (and one dump holds an object with no "id", which the deserializer rejects)
RawPwDocs ==
    {   [i \in 1..Len(q) |-> [id |-> Some(PwIdBase + i), info |-> q[i]]] :
            q \in SeqsUpTo(RawPwInfos, MaxEntries) }
    \cup {<<[id |-> None, info |-> None]>>}
PwOutputs ==
    {Exited(Some(0), JsonArray(d), <<>>) : d \in RawPwDocs}
    \cup {Exited(Some(0), Malformed, <<>>)}
    \cup {Exited(c, JsonArray(<<[id |-> Some(PwIdBase + 1),
                                  info |-> Some(RawPwInfo(Some(RawPwProps(Some(Text_addr_colon))),
                                                          Some(RawPwGoodParams)))]>>),
                 Bytes_no_card) : c \in ExitCodes \ {Some(0)}}

\* --- pactl --format=json list cards
RawPaProfile(name, description, available) ==
    [name |-> name, description |-> description, available |-> available]
RawPa_off == RawPaProfile(Some(Str_off), None, Some(TRUE))
RawPa_hsp == RawPaProfile(Some(Str_hsp), Some(Str_Headset), Some(FALSE))
RawPa_a2dp == RawPaProfile(Some(Str_a2dp), Some(Str_HiFi), Some(TRUE))
\* a second profile named "a2dp", this one not available
RawPa_a2dp_busy == RawPaProfile(Some(Str_a2dp), Some(Str_Headset), Some(FALSE))
\* "available" missing / "name" and "description" missing
RawPa_noavail == RawPaProfile(Some(Str_hsp), Some(Str_Headset), None)
RawPa_anon == RawPaProfile(None, None, Some(TRUE))
RawPaProfilePool == {RawPa_off, RawPa_hsp, RawPa_a2dp}
RawPaProfileLists ==
    {Some(q) : q \in DistinctSeqsUpTo(RawPaProfilePool, MaxProfiles)}

RawPaProps(bluez5_address, device_string) ==
    (Key_bluez5_address :> bluez5_address) @@ (Key_device_string :> device_string)
RawPaCard(name, properties, profiles, active_profile) ==
    [name |-> name, properties |-> properties, profiles |-> profiles,
     active_profile |-> active_profile]
RawPaGoodProfiles == Some(<<RawPa_off, RawPa_a2dp>>)
RawPaCards ==
    \* the ways a card names its address, each with the same usable profiles
    {   RawPaCard(Some(Name_alsa_card), p, RawPaGoodProfiles, Some(Str_a2dp)) :
            p \in { None,
                    Some(RawPaProps(None, None)),
                    Some(RawPaProps(Some(Text_addr_colon), None)),
                    Some(RawPaProps(Some(Text_addr_underscore), None)),
                    Some(RawPaProps(None, Some(Text_addr_colon))),
                    Some(RawPaProps(Some(Text_addr_other), Some(Text_addr_colon))) } }
    \cup
    {   RawPaCard(Some(Name_bluez_card), Some(RawPaProps(Some(Text_addr_other), None)),
                  RawPaGoodProfiles, Some(Str_off)),
        RawPaCard(None, None, None, None),
        RawPaCard(Some(Name_bluez_card), None,
                  Some(<<RawPa_a2dp_busy, RawPa_a2dp>>), Some(Str_a2dp)),
        RawPaCard(Some(Name_bluez_card), None,
                  Some(<<RawPa_noavail, RawPa_anon>>), Some(Str_hsp)) }
    \cup
    \* a card named after the address, with every profile list and active profile
    {   RawPaCard(Some(Name_bluez_card), None, ps, a) :
            ps \in RawPaProfileLists, a \in {None, Some(Str_a2dp), Some(Str_hsp)} }
RawPaDocs == SeqsUpTo(RawPaCards, MaxCards)
PaOutputs ==
    {Exited(Some(0), JsonArray(d), <<>>) : d \in RawPaDocs}
    \cup {Exited(Some(0), Malformed, <<>>)}
    \cup {Exited(c, JsonArray(<<RawPaCard(Some(Name_bluez_card), None, RawPaGoodProfiles,
                                           Some(Str_a2dp))>>),
                 Bytes_no_card) : c \in ExitCodes \ {Some(0)}}

\* --- switch_profile
SwitchDevices == {Pipewire(PwIdBase + 1), Pulseaudio(Name_bluez_card)}
SwitchIndexes == {0, 2, 12}
SwitchNames == {Str_a2dp, Str_hsp}
SwitchOutputs ==
    {Exited(c, <<>>, e) : c \in ExitCodes, e \in {<<>>, Bytes_no_card, Bytes_not_utf8}}

\* ---------------------------------------------------------------- state
VARIABLES
    pc,         \* where the program is: "idle", or a point inside the running call
    call,       \* the running call and its arguments
    running,    \* the child processes that are running, by argument vector
    attempts,   \* the commands the running call has handed to Command::output()
    pwOut,      \* get_pipewire_device's `output`, while the function runs
    paOut,      \* get_pulseaudio_device's `output`, while the function runs
    swOut,      \* the switch function's `output`, while the function runs
    pwRet,      \* what get_pipewire_device returned
    paRet,      \* what get_pulseaudio_device returned
    result,     \* what get_audio_device returns
    swResult    \* what switch_profile returns

vars == <<pc, call, running, attempts, pwOut, paOut, swOut, pwRet, paRet, result, swResult>>

NoCall == [op |-> "none"]

Init ==
    /\ pc = "idle"
    /\ call = NoCall
    /\ running = {}
    /\ attempts = <<>>
    /\ pwOut = None /\ paOut = None /\ swOut = None
    /\ pwRet = None /\ paRet = None /\ result = None
    /\ swResult = None

\* get_audio_device(addr) is called
CallGetAudioDevice ==
    /\ pc = "idle"
    /\ \E addr \in Addresses : call' = [op |-> "get_audio_device", addr |-> addr]
    /\ pc' = "pw_spawn"
    /\ UNCHANGED <<running, attempts, pwOut, paOut, swOut, pwRet, paRet, result, swResult>>

\* Command::new("pw-dump").output() cannot launch the child
PwLaunchFails ==
    /\ pc = "pw_spawn"
    /\ \E e \in LaunchErrors :
          /\ pwOut' = Some(LaunchError(e))
          /\ pwRet' = get_pipewire_device(LaunchError(e), call.addr)
    /\ attempts' = Append(attempts, PwDumpArgv)
    /\ pc' = "pw_ret"
    /\ UNCHANGED <<call, running, paOut, swOut, paRet, result, swResult>>

\* Command::new("pw-dump").output() launches the child and waits for it
PwLaunch ==
    /\ pc = "pw_spawn"
    /\ attempts' = Append(attempts, PwDumpArgv)
    /\ running' = running \cup {PwDumpArgv}
    /\ pc' = "pw_wait"
    /\ UNCHANGED <<call, pwOut, paOut, swOut, pwRet, paRet, result, swResult>>

\* (mutant) get_pipewire_device goes on without waiting for pw-dump to exit
PwExit_child_left_running ==
    /\ pc = "pw_wait"
    /\ \E o \in PwOutputs :
          /\ pwOut' = Some(o)
          /\ pwRet' = get_pipewire_device(o, call.addr)
    /\ running' = running
    /\ pc' = "pw_ret"
    /\ UNCHANGED <<call, attempts, paOut, swOut, paRet, result, swResult>>

\* pw-dump exits; get_pipewire_device runs to its return
PwExit ==
    /\ pc = "pw_wait"
    /\ \E o \in PwOutputs :
          /\ pwOut' = Some(o)
          /\ pwRet' = get_pipewire_device(o, call.addr)
    /\ running' = running \ {PwDumpArgv}
    /\ pc' = "pw_ret"
    /\ UNCHANGED <<call, attempts, paOut, swOut, paRet, result, swResult>>

\* get_pipewire_device returned Some: or_else keeps it
PipewireFound ==
    /\ pc = "pw_ret"
    /\ IsSome(pwRet)
    /\ result' = pwRet
    /\ pwOut' = None
    /\ pc' = "done"
    /\ UNCHANGED <<call, running, attempts, paOut, swOut, pwRet, paRet, swResult>>

\* (mutant) get_audio_device gives up when PipeWire has nothing
FallBackToPulseaudio_gives_up ==
    /\ pc = "pw_ret"
    /\ IsNone(pwRet)
    /\ pwOut' = None
    /\ result' = None
    /\ pc' = "done"
    /\ UNCHANGED <<call, running, attempts, paOut, swOut, pwRet, paRet, swResult>>

\* get_pipewire_device returned None: or_else calls get_pulseaudio_device
FallBackToPulseaudio ==
    /\ pc = "pw_ret"
    /\ IsNone(pwRet)
    /\ pwOut' = None
    /\ pc' = "pa_spawn"
    /\ UNCHANGED <<call, running, attempts, paOut, swOut, pwRet, paRet, result, swResult>>

\* Command::new("pactl")...output() cannot launch the child
PaLaunchFails ==
    /\ pc = "pa_spawn"
    /\ \E e \in LaunchErrors :
          /\ paOut' = Some(LaunchError(e))
          /\ paRet' = get_pulseaudio_device(LaunchError(e), call.addr)
    /\ attempts' = Append(attempts, PaListArgv)
    /\ pc' = "pa_ret"
    /\ UNCHANGED <<call, running, pwOut, swOut, pwRet, result, swResult>>

\* Command::new("pactl")...output() launches the child and waits for it
PaLaunch ==
    /\ pc = "pa_spawn"
    /\ attempts' = Append(attempts, PaListArgv)
    /\ running' = running \cup {PaListArgv}
    /\ pc' = "pa_wait"
    /\ UNCHANGED <<call, pwOut, paOut, swOut, pwRet, paRet, result, swResult>>

\* pactl exits; get_pulseaudio_device runs to its return
PaExit ==
    /\ pc = "pa_wait"
    /\ \E o \in PaOutputs :
          /\ paOut' = Some(o)
          /\ paRet' = get_pulseaudio_device(o, call.addr)
    /\ running' = running \ {PaListArgv}
    /\ pc' = "pa_ret"
    /\ UNCHANGED <<call, attempts, pwOut, swOut, pwRet, result, swResult>>

\* get_pulseaudio_device returns: its value is get_audio_device's
PulseaudioReturns ==
    /\ pc = "pa_ret"
    /\ result' = paRet
    /\ paOut' = None
    /\ pc' = "done"
    /\ UNCHANGED <<call, running, attempts, pwOut, swOut, pwRet, paRet, swResult>>

\* switch_profile(device, profile_index, profile_name) is called
CallSwitchProfile ==
    /\ pc = "idle"
    /\ \E d \in SwitchDevices, i \in SwitchIndexes, n \in SwitchNames :
          call' = [op |-> "switch_profile", device |-> d, profile_index |-> i,
                   profile_name |-> n]
    /\ pc' = "sw_spawn"
    /\ UNCHANGED <<running, attempts, pwOut, paOut, swOut, pwRet, paRet, result, swResult>>

\* the control command cannot be launched
SwLaunchFails ==
    /\ pc = "sw_spawn"
    /\ \E e \in LaunchErrors :
          /\ swOut' = Some(LaunchError(e))
          /\ swResult' = Some(switch_profile(call.device, LaunchError(e)))
    /\ attempts' = Append(attempts, SwitchArgv(call.device, call.profile_index, call.profile_name))
    /\ pc' = "sw_ret"
    /\ UNCHANGED <<call, running, pwOut, paOut, pwRet, paRet, result>>

\* the control command is launched and waited for
SwLaunch ==
    /\ pc = "sw_spawn"
    /\ attempts' = Append(attempts, SwitchArgv(call.device, call.profile_index, call.profile_name))
    /\ running' = running \cup {SwitchArgv(call.device, call.profile_index, call.profile_name)}
    /\ pc' = "sw_wait"
    /\ UNCHANGED <<call, pwOut, paOut, swOut, pwRet, paRet, result, swResult>>

\* the control command exits; the switch function runs to its return
SwExit ==
    /\ pc = "sw_wait"
    /\ \E o \in SwitchOutputs :
          /\ swOut' = Some(o)
          /\ swResult' = Some(switch_profile(call.device, o))
    /\ running' = {}
    /\ pc' = "sw_ret"
    /\ UNCHANGED <<call, attempts, pwOut, paOut, pwRet, paRet, result>>

\* the call returns to the caller, which may call again
Return ==
    /\ pc \in {"done", "sw_ret"}
    /\ pc' = "idle"
    /\ call' = NoCall
    /\ running' = running
    /\ attempts' = <<>>
    /\ pwOut' = None /\ paOut' = None /\ swOut' = None
    /\ pwRet' = None /\ paRet' = None /\ result' = None
    /\ swResult' = None

Next ==
    \/ CallGetAudioDevice
    \/ PwLaunchFails
    \/ PwLaunch
    \/ PwExit
    \/ PipewireFound
    \/ FallBackToPulseaudio
    \/ PaLaunchFails
    \/ PaLaunch
    \/ PaExit
    \/ PulseaudioReturns
    \/ CallSwitchProfile
    \/ SwLaunchFails
    \/ SwLaunch
    \/ SwExit
    \/ Return

Spec == Init /\ [][Next]_vars

\* ================================================================ claims
\* What the claims speak of, stated on the commands' JSON output as emitted.

\* the queried address in underscore form
NormalizedQuery(addr) ==
    IF addr = Addr_A THEN Text_addr_underscore
    ELSE Replace(Text_addr_other, Colon, Underscore)

Min(S) == CHOOSE i \in S : \A j \in S : i <= j

\* --- PipeWire
DumpEntryAddress(e) ==
    IF IsSome(e.info) /\ IsSome(e.info[1].props)
    THEN e.info[1].props[1][Key_bluez5_address] ELSE None
DumpEntryEnumProfile(e) ==
    IF IsSome(e.info) /\ IsSome(e.info[1].params) /\ IsSome(e.info[1].params[1].EnumProfile)
    THEN e.info[1].params[1].EnumProfile[1] ELSE <<>>
DumpEntryProfile(e) ==
    IF IsSome(e.info) /\ IsSome(e.info[1].params) /\ IsSome(e.info[1].params[1].Profile)
    THEN e.info[1].params[1].Profile[1] ELSE <<>>
DumpEntryMatches(e, addr) ==
    /\ IsSome(DumpEntryAddress(e))
    /\ Replace(DumpEntryAddress(e)[1], Colon, Underscore) = NormalizedQuery(addr)
DumpProfileUsable(p) == p.name # Some(Str_off) /\ p.available = Some(Str_yes)
DumpEntryUsableProfiles(e) ==
    LET kept == SelectSeq(DumpEntryEnumProfile(e), DumpProfileUsable)
    IN  [k \in 1..Len(kept) |->
            [index |-> kept[k].index[1],
             name |-> IF IsSome(kept[k].name) THEN kept[k].name[1] ELSE <<>>,
             description |-> IF IsSome(kept[k].description) THEN kept[k].description[1] ELSE <<>>,
             available |-> TRUE]]
\* every object has an id and every listed profile an index
DumpReadable(doc) ==
    \A i \in 1..Len(doc) :
        /\ IsSome(doc[i].id)
        /\ \A k \in 1..Len(DumpEntryEnumProfile(doc[i])) :
              IsSome(DumpEntryEnumProfile(doc[i])[k].index)
        /\ \A k \in 1..Len(DumpEntryProfile(doc[i])) :
              IsSome(DumpEntryProfile(doc[i])[k].index)
\* get_pipewire_device is about to return after scanning a dump it could read
PwScanned ==
    /\ pc = "pw_ret"
    /\ pwOut[1].launched
    /\ pwOut[1].status = Some(0)
    /\ pwOut[1].stdout.wellformed
    /\ DumpReadable(pwOut[1].stdout.doc)
PwDoc == pwOut[1].stdout.doc
\* the positions of the address-matching entries, of those that list a profile,
\* and of those with a usable (non-"off", available) profile
PwMatching == {i \in 1..Len(PwDoc) : DumpEntryMatches(PwDoc[i], call.addr)}
PwListed == {i \in PwMatching : Len(DumpEntryEnumProfile(PwDoc[i])) > 0}
PwUsable == {i \in PwMatching : Len(DumpEntryUsableProfiles(PwDoc[i])) > 0}

\* --- PulseAudio
CardName(c) == IF IsSome(c.name) THEN c.name[1] ELSE <<>>
CardProfiles(c) == IF IsSome(c.profiles) THEN c.profiles[1] ELSE <<>>
CardProperty(c, k) == IF IsSome(c.properties) THEN c.properties[1][k] ELSE None
\* (a): the candidate address, and (b): the name
CardCandidate(c) ==
    IF IsSome(CardProperty(c, Key_bluez5_address))
    THEN CardProperty(c, Key_bluez5_address)
    ELSE CardProperty(c, Key_device_string)
CardMatchesByAddress(c, addr) ==
    /\ IsSome(CardCandidate(c))
    /\ Replace(CardCandidate(c)[1], Colon, Underscore) = NormalizedQuery(addr)
CardMatchesByName(c, addr) == Contains(CardName(c), NormalizedQuery(addr))
CardMatches(c, addr) == CardMatchesByAddress(c, addr) \/ CardMatchesByName(c, addr)
CardProfileUsable(p) == p.name # Some(Str_off) /\ p.available = Some(TRUE)
\* the names of the card's available, non-"off" profiles, in order
CardUsableNames(c) ==
    LET kept == SelectSeq(CardProfiles(c), CardProfileUsable)
    IN  [k \in 1..Len(kept) |-> IF IsSome(kept[k].name) THEN kept[k].name[1] ELSE <<>>]
\* get_pulseaudio_device is about to return after scanning a card list
PaScanned ==
    /\ pc = "pa_ret"
    /\ paOut[1].launched
    /\ paOut[1].status = Some(0)
    /\ paOut[1].stdout.wellformed
PaDoc == paOut[1].stdout.doc
PaMatching == {i \in 1..Len(PaDoc) : CardMatches(PaDoc[i], call.addr)}
PaUsable == {i \in PaMatching : Len(CardUsableNames(PaDoc[i])) > 0}

\* a Device as the data model describes it
DeviceWellFormed(d) ==
    /\ Len(d.profiles) > 0
    /\ \A k \in 1..Len(d.profiles) :
          d.profiles[k].available /\ d.profiles[k].name # Str_off

\* C1: every Device that discovery returns, from either backend, has a
\* non-empty profile list whose profiles are all available and none named "off".
C1_DeviceHasUsableProfiles ==
    /\ IsSome(pwRet) => DeviceWellFormed(pwRet[1])
    /\ IsSome(paRet) => DeviceWellFormed(paRet[1])
    /\ IsSome(result) => DeviceWellFormed(result[1])

\* C2: the PipeWire scan skips an address-matching entry without a usable
\* profile and returns the first address-matching entry, in dump order, whose
\* filtered profile list is non-empty; with no such entry it yields nothing.
C2_PipewireSkipsUnusableEntries ==
    PwScanned =>
        IF PwUsable = {} THEN IsNone(pwRet)
        ELSE /\ IsSome(pwRet)
             /\ pwRet[1].id = Pipewire(PwDoc[Min(PwUsable)].id[1])
             /\ Len(pwRet[1].profiles) > 0

\* C3: for a dump holding an address-matching entry with a usable profile,
\* the device is Pipewire(entry id) with exactly the entry's non-"off",
\* available profiles in dump order (index, name, description as reported)
\* and the index of the Profile parameter's first entry as the active index.
C3_PipewireDeviceContents ==
    (PwScanned /\ PwUsable # {}) =>
        LET e == PwDoc[Min(PwUsable)] IN
        /\ IsSome(pwRet)
        /\ pwRet[1].id = Pipewire(e.id[1])
        /\ pwRet[1].profiles = DumpEntryUsableProfiles(e)
        /\ pwRet[1].active_profile_index =
              IF Len(DumpEntryProfile(e)) = 0 THEN None
              ELSE Some(DumpEntryProfile(e)[1].index[1])

\* (C1, C2 and C3 are stated above; none of the three holds of the code.)

\* C4: get_audio_device probes PipeWire first; whenever that probe yields no
\* device (pw-dump not launched, non-zero exit, malformed or unreadable JSON,
\* no address-matching object that lists a profile) it probes PulseAudio and
\* returns that probe's result; it returns absent only after both yielded
\* nothing, and PulseAudio is not probed when PipeWire returned a device.
C4_FallBackToPulseaudio ==
    /\ pc = "pw_ret" =>
          ( ( \/ ~pwOut[1].launched
              \/ pwOut[1].status # Some(0)
              \/ ~pwOut[1].stdout.wellformed
              \/ ~DumpReadable(PwDoc)
              \/ PwListed = {} )
            <=> IsNone(pwRet) )
    /\ pc \in {"pa_spawn", "pa_wait", "pa_ret"} =>
          /\ IsNone(pwRet)
          /\ attempts[1] = PwDumpArgv
    /\ pc = "done" =>
          IF IsSome(pwRet)
          THEN result = pwRet /\ attempts = <<PwDumpArgv>> /\ IsNone(paRet)
          ELSE result = paRet /\ attempts = <<PwDumpArgv, PaListArgv>>
    /\ (pc = "done" /\ IsNone(result)) => (IsNone(pwRet) /\ IsNone(paRet))
\* PipeWire had nothing and the device came from PulseAudio
C4_Witness ==
    /\ pc = "done"
    /\ IsNone(pwRet)
    /\ IsSome(result)
    /\ result[1].id.variant = "Pulseaudio"
    /\ attempts = <<PwDumpArgv, PaListArgv>>

\* C5: a PulseAudio card is an address match iff (a) its candidate address
\* (api.bluez5.address when present, device.string only otherwise), with ':'
\* replaced by '_', equals the normalized query, or (b) its name contains the
\* normalized query; the device returned is the first matching card that has
\* a usable profile, and no device is returned when there is none.
C5_PulseaudioCardMatch ==
    PaScanned =>
        /\ \A i \in 1..Len(PaDoc) :
              PaCardMatches(PaCardFromJson(PaDoc[i]), address_to_bluez_format(call.addr))
                  <=> CardMatches(PaDoc[i], call.addr)
        /\ IF PaUsable = {} THEN IsNone(paRet)
           ELSE /\ IsSome(paRet)
                /\ paRet[1].id = Pulseaudio(CardName(PaDoc[Min(PaUsable)]))
\* the card bluez_card.AA_BB_CC_DD_EE_FF without properties, found by its name
C5_Witness ==
    /\ PaScanned
    /\ call.addr = Addr_A
    /\ Len(PaDoc) = 1
    /\ PaDoc[1].name = Some(Name_bluez_card)
    /\ IsNone(PaDoc[1].properties)
    /\ IsSome(paRet)
    /\ paRet[1].id = Pulseaudio(Name_bluez_card)

\* C6: in a Device from PulseAudio every profile's index is its zero-based
\* position among the kept (non-"off", available) profiles.
C6_PulseaudioIndexIsFilteredPosition ==
    (pc = "pa_ret" /\ IsSome(paRet)) =>
        \A k \in 1..Len(paRet[1].profiles) : paRet[1].profiles[k].index = k - 1

\* C7: in a Device from PulseAudio the active index is found by the name of
\* the card's active profile among the kept profiles only: when present it is
\* the zero-based position in the returned list of the first profile of that
\* name (so below the list's length); it is absent when the card names no
\* active profile, or names "off", or a name no kept profile has.
C7_PulseaudioActiveIndex ==
    (PaScanned /\ IsSome(paRet)) =>
        LET card == PaDoc[Min(PaUsable)]
            names == CardUsableNames(card)
            active == card.active_profile
            at == IF IsSome(active)
                  THEN {k \in 1..Len(names) : names[k] = active[1]} ELSE {}
            got == paRet[1].active_profile_index
        IN  /\ Len(paRet[1].profiles) = Len(names)
            /\ \A k \in 1..Len(names) : paRet[1].profiles[k].name = names[k]
            /\ got = IF at = {} THEN None ELSE Some(Min(at) - 1)
            /\ IsSome(got) => got[1] < Len(paRet[1].profiles)
            /\ active \in {None, Some(Str_off)} => IsNone(got)
\* "a2dp" is active and is the first kept profile, behind "off" in the card
C7_Witness ==
    /\ PaScanned
    /\ IsSome(paRet)
    /\ Len(PaDoc) = 1
    /\ PaDoc[1].profiles = Some(<<RawPa_off, RawPa_a2dp>>)
    /\ PaDoc[1].active_profile = Some(Str_a2dp)
    /\ paRet[1].active_profile_index = Some(0)

\* C8: switch_profile returns Ok("Profile switched") iff the control command
\* was launched and exited with status zero; on another exit it returns an
\* Err whose message contains the captured standard-error text, and when the
\* command cannot be launched an Err whose message contains the reason.
C8_SwitchResultFollowsExitStatus ==
    pc = "sw_ret" =>
        LET o == swOut[1]
            r == swResult[1]
        IN  /\ r.ok <=> (o.launched /\ o.status = Some(0))
            /\ r.ok => r.msg = Str_Profile_switched
            /\ (o.launched /\ o.status # Some(0)) =>
                  /\ ~r.ok
                  /\ Contains(r.msg, FromUtf8Lossy(o.stderr))
                  /\ o.stderr = Bytes_no_card => Contains(r.msg, Bytes_no_card)
            /\ ~o.launched => (~r.ok /\ Contains(r.msg, o.error))
\* pactl set-card-profile exited with status 1 and "No such card" on stderr
C8_Witness ==
    /\ pc = "sw_ret"
    /\ call.device.variant = "Pulseaudio"
    /\ swOut[1].launched
    /\ swOut[1].status = Some(1)
    /\ swOut[1].stderr = Bytes_no_card
    /\ ~swResult[1].ok

\* the decimal text of the ids and indexes that are switched
DecimalText(n) ==
    CASE n = 0 -> <<48>>
      [] n = 2 -> <<50>>
      [] n = 12 -> <<49, 50>>
      [] n = 31 -> <<51, 49>>
\* the one command the claim allows for the call
ClaimedSwitchCommand ==
    IF call.device.variant = "Pipewire"
    THEN <<Str_wpctl, Str_set_profile, DecimalText(call.device.id),
           DecimalText(call.profile_index)>>
    ELSE <<Str_pactl, Str_set_card_profile, call.device.card, call.profile_name>>

\* C9: switch_profile runs, for Pipewire(id), wpctl set-profile <id> <index>
\* and, for Pulseaudio(card), pactl set-card-profile <card> <profile name>,
\* and no other command.
C9_SwitchDispatch ==
    pc \in {"sw_wait", "sw_ret"} =>
        /\ attempts = <<ClaimedSwitchCommand>>
        /\ running \subseteq {ClaimedSwitchCommand}
\* pactl set-card-profile bluez_card.AA_BB_CC_DD_EE_FF hsp is running
C9_Witness ==
    /\ pc = "sw_wait"
    /\ call.device = Pulseaudio(Name_bluez_card)
    /\ call.profile_index = 12
    /\ running = {<<Str_pactl, Str_set_card_profile, Name_bluez_card, Str_hsp>>}

\* C10 as claimed: every call, get_audio_device included, hands exactly one
\* command to Command::output(), and no two children run at the same time.
C10_OneCommandPerCall ==
    /\ pc \in {"done", "sw_ret"} => Len(attempts) = 1
    /\ Cardinality(running) <= 1

\* C10 as amended: each backend probe and each switch hands exactly one
\* command to Command::output(), once, and goes on only when the child has
\* exited; get_audio_device runs one probe when PipeWire returns a device and
\* two (pw-dump, then pactl list cards) otherwise; no two children run at the
\* same time.
C10_OneCommandPerProbe ==
    /\ Cardinality(running) <= 1
    /\ running # {} =>
          /\ pc \in {"pw_wait", "pa_wait", "sw_wait"}
          /\ running = {attempts[Len(attempts)]}
    /\ pc \in {"pw_wait", "pa_wait", "sw_wait"} => running # {}
    /\ pc \in {"pw_wait", "pw_ret"} => attempts = <<PwDumpArgv>>
    /\ pc \in {"pa_wait", "pa_ret"} => attempts = <<PwDumpArgv, PaListArgv>>
    /\ pc \in {"sw_wait", "sw_ret"} => Len(attempts) = 1
    /\ pc = "done" =>
          attempts = IF IsSome(pwRet) THEN <<PwDumpArgv>> ELSE <<PwDumpArgv, PaListArgv>>
\* a discovery that ran both pw-dump and pactl, one after the other
C10_Witness ==
    /\ pc = "done"
    /\ attempts = <<PwDumpArgv, PaListArgv>>
    /\ running = {}

====
